---- MODULE Spec2Model ----
(***************************************************************************)
(* Model of the Deno WebRTC signaling server (src/main.ts).                *)
(*                                                                         *)
(* The server keeps a registry `rooms` (Map from room key to an            *)
(* Set of sockets) and a table `clients` from each accepted socket to its  *)
(* ClientInfo record.  Every handler of the program (the request handler   *)
(* of Deno.serve and the open, message, close and error listeners of a     *)
(* socket) runs to completion on the single-threaded event loop, so each   *)
(* is one atomic action here.  A Set is iterated in the order its members  *)
(* were added; the registry here keeps plain sets, so a relay loop lists   *)
(* its sends by socket number, or in any order where a send can raise.     *)
(***************************************************************************)
EXTENDS Integers, Sequences, FiniteSets, TLC

VARIABLES
    rooms,       \* main.ts:9   Map<string, Set<WebSocket>>: room key -> member set
    clients,     \* main.ts:20  WeakMap<WebSocket, ClientInfo>: socket -> its ClientInfo (field room)
    readyState,  \* WebSocket.readyState of each accepted socket (index = socket)
    last,        \* the event handled last: its kind, socket, payload, request and response
    sent,        \* the client.send calls of the handler that ran last
    before,      \* rooms and clients as they were when the handler that ran last started
    journal      \* history: the numbered messages handled so far, who was to get them and who did

vars == <<rooms, clients, readyState, last, sent, before, journal>>

----------------------------------------------------------------------------
(* Bounds of the model *)

\* number of WebSocket connections the model accepts in one behaviour
MaxConns == 2

\* longest topics array of a subscribe message
MaxTopics == 2

\* number of connections of the specification with three peers in a room
MaxCrowd == 3

\* number of numbered messages the journal records in one behaviour
MaxJournal == 2

Sockets == 1..MaxConns
Crowd == 1..MaxCrowd

----------------------------------------------------------------------------
(* JavaScript values *)

\* sentinels for the JavaScript values null and undefined and for a missing
\* header or a missing property
Null == "<null>"
Undefined == "<undefined>"
Absent == "<absent>"

\* the room names a client puts in a topics array
TopicIds == {"A", "B"}

\* every value clientInfo.room and a key of rooms can take
RoomKeys == TopicIds \cup {Undefined, "", "undefined"}

\* JavaScript truthiness of a room value (null, undefined and "" are falsy)
Truthy(v) == v \notin {Null, Undefined, ""}

\* process configuration: the shared secret
SIGNALING_PASSWORD == "change-me-in-production"

----------------------------------------------------------------------------
(* Message payloads (event.data) *)

NoTopics == [kind |-> "absent", items |-> <<>>]
StringTopics == [kind |-> "string", items |-> <<"A">>]
ArrayTopics(l) == [kind |-> "array", items |-> l]

TopicLists == UNION {[1..n -> TopicIds] : n \in 0..MaxTopics}

Obj(type, action, topics) ==
    [syntax |-> "object", type |-> type, action |-> action, topics |-> topics]

\* a payload that is not JSON, e.g. the text hello
TextPayload == [syntax |-> "text", type |-> Absent, action |-> Absent, topics |-> NoTopics]
\* the JSON text null
NullPayload == [syntax |-> "null", type |-> Absent, action |-> Absent, topics |-> NoTopics]
NoPayload == [syntax |-> "none", type |-> Absent, action |-> Absent, topics |-> NoTopics]

Payloads ==
    {TextPayload, NullPayload}
    \cup {Obj("test", Absent, NoTopics),
          Obj(Absent, "subscribe", ArrayTopics(<<"A">>)),
          Obj("subscribe", Absent, NoTopics),
          Obj("subscribe", Absent, StringTopics)}
    \cup {Obj("subscribe", Absent, ArrayTopics(l)) : l \in TopicLists}

\* the same payloads, the room names being "A" and the empty string "" and
\* every topics array holding at least one name
EmptyNameTopicLists == UNION {[1..n -> {"A", ""}] : n \in 1..MaxTopics}

EmptyNamePayloads ==
    {TextPayload, NullPayload}
    \cup {Obj("test", Absent, NoTopics),
          Obj(Absent, "subscribe", ArrayTopics(<<"A">>)),
          Obj("subscribe", Absent, NoTopics),
          Obj("subscribe", Absent, StringTopics)}
    \cup {Obj("subscribe", Absent, ArrayTopics(l)) : l \in EmptyNameTopicLists}

\* two numbered relay-only messages, {"type":"m1"} and {"type":"m2"}
M1 == Obj("m1", Absent, NoTopics)
M2 == Obj("m2", Absent, NoTopics)

\* the messages the journal records
Tracked(p) == p.syntax = "object" /\ p.type \in {"m1", "m2"}

\* the payloads of the clients that send numbered messages in rooms "A" and ""
FifoPayloads ==
    {M1, M2,
     Obj("subscribe", Absent, ArrayTopics(<<"A">>)),
     Obj("subscribe", Absent, ArrayTopics(<<"">>))}

\* the payloads of the clients of the three-peer specification
CrowdPayloads ==
    {TextPayload,
     Obj("test", Absent, NoTopics),
     Obj("subscribe", Absent, ArrayTopics(<<"A">>)),
     Obj("subscribe", Absent, ArrayTopics(<<>>))}

\* the payloads of three peers that only join a room and talk in it
TrioPayloads ==
    {Obj("test", Absent, NoTopics),
     Obj("subscribe", Absent, ArrayTopics(<<"A">>)),
     Obj("subscribe", Absent, ArrayTopics(<<>>))}

\* the payloads of the clients that name a room "undefined"
ClashPayloads ==
    {Obj("subscribe", Absent, ArrayTopics(<<"undefined">>)),
     Obj("subscribe", Absent, ArrayTopics(<<>>))}

\* JSON.parse(event.data) throws a SyntaxError
ParseThrows(p) == p.syntax = "text"

\* data.type throws a TypeError (data is null)
TypeThrows(p) == p.syntax = "null"

\* a subscribe test that also accepts the discriminator under the name action
IsSubscribeEitherName(p) ==
    /\ p.syntax = "object"
    /\ (p.type = "subscribe" \/ p.action = "subscribe")
    /\ p.topics.kind # "absent"
    /\ p.topics.kind = "array"

\* a subscribe test without the Array.isArray check
IsSubscribeAnyTopics(p) ==
    /\ p.syntax = "object"
    /\ p.type = "subscribe"
    /\ p.topics.kind # "absent"

\* main.ts:131  data.type === "subscribe" && data.topics && Array.isArray(data.topics)
IsSubscribe(p) ==
    /\ p.syntax = "object"
    /\ p.type = "subscribe"
    /\ p.topics.kind # "absent"
    /\ p.topics.kind = "array"

\* main.ts:132  data.topics[0]  (undefined when the array is empty)
FirstTopic(p) ==
    IF Len(p.topics.items) > 0 THEN p.topics.items[1] ELSE Undefined

----------------------------------------------------------------------------
(* Map and Set operations *)

\* Set.prototype.delete
SetDelete(q, s) == q \ {s}

\* Set.prototype.add
SetAdd(q, s) == q \cup {s}

\* Set.prototype.size
Size(q) == Cardinality(q)

\* Map.prototype.has
Has(m, k) == k \in DOMAIN m

\* Map.prototype.delete
MapDelete(m, k) == [x \in (DOMAIN m) \ {k} |-> m[x]]

\* Map.prototype.set
MapSet(m, k, v) == [x \in (DOMAIN m) \cup {k} |-> IF x = k THEN v ELSE m[x]]

\* the member set of room key k in registry m (empty when the key is absent)
Members(m, k) == IF Has(m, k) THEN m[k] ELSE {}

\* sum of f over the finite set S
RECURSIVE Sum(_, _)
Sum(f, S) ==
    IF S = {} THEN 0
    ELSE LET x == CHOOSE y \in S : TRUE IN f[x] + Sum(f, S \ {x})

----------------------------------------------------------------------------
(* Stats (main.ts:28-40, 50-56) *)

\* main.ts:28-32
GetTotalClients(m) == Sum([k \in DOMAIN m |-> Size(m[k])], DOMAIN m)

\* the property key stats[room] uses for a room key (String(undefined) is "undefined")
ToKey(k) == IF k = Undefined THEN "undefined" ELSE k

\* the property keys of the object getRoomStats fills
StatKeys(m) == {ToKey(k) : k \in DOMAIN m}

\* main.ts:36-38  stats[room] = clients.size runs once per room in the order the
\* rooms were created, so of the rooms that share a property key the one
\* created last is reported; g names, for each property key, that room
LastWriters(m) ==
    IF \A k1, k2 \in DOMAIN m : ToKey(k1) = ToKey(k2) => k1 = k2
    THEN {[key \in StatKeys(m) |-> CHOOSE k \in DOMAIN m : ToKey(k) = key]}
    ELSE {g \in [StatKeys(m) -> DOMAIN m] : \A key \in StatKeys(m) : ToKey(g[key]) = key}

\* main.ts:34-40
GetRoomStats(m, g) == [key \in StatKeys(m) |-> Size(m[g[key]])]

\* main.ts:50-56 (uptime left out: it reads the clock only)
HealthStats(m, g) ==
    [status |-> "ok",
     totalRooms |-> Cardinality(DOMAIN m),
     totalClients |-> GetTotalClients(m),
     rooms |-> GetRoomStats(m, g)]

NoStats == [status |-> "none", totalRooms |-> 0, totalClients |-> 0, rooms |-> GetRoomStats(<<>>, <<>>)]

----------------------------------------------------------------------------
(* Events and responses *)

NoRequest == [path |-> "", upgrade |-> Absent, protocol |-> Absent]
NoResponse == [status |-> 0, echo |-> Absent, stats |-> NoStats]

\* escaped: an exception left the handler (thrown inside the catch block)
Event(kind, s, p, req, resp) ==
    [kind |-> kind, sock |-> s, payload |-> p, request |-> req, response |-> resp,
     escaped |-> FALSE]

\* the request URL paths, the upgrade header and the Sec-WebSocket-Protocol
\* header a request can carry
Paths == {"/", "/health", "/signal"}
UpgradeHeaders == {"websocket", Absent}
ProtocolHeaders == {SIGNALING_PASSWORD, "wrong-password", Absent}

Requests == [path : Paths, upgrade : UpgradeHeaders, protocol : ProtocolHeaders]

\* an upgrade request with the right credential
AcceptedRequest == [path |-> "/signal", upgrade |-> "websocket", protocol |-> SIGNALING_PASSWORD]

\* a health request without a credential
HealthRequest == [path |-> "/health", upgrade |-> Absent, protocol |-> Absent]

----------------------------------------------------------------------------
(* Room membership and relay (main.ts:126-189) *)

\* the sockets of set q in the order of their numbers
RECURSIVE InOrder(_)
InOrder(q) ==
    IF q = {} THEN <<>>
    ELSE LET c == CHOOSE x \in q : \A y \in q : x <= y IN <<c>> \o InOrder(q \ {c})

\* a removal from the old room that drops the room whoever is left in it
LeaveOldDropsRoom(m, info, s) ==
    IF Truthy(info[s].room) /\ Has(m, info[s].room)
    THEN MapDelete(m, info[s].room)
    ELSE m

\* main.ts:134-140  remove socket s from its old room, drop the room when empty
LeaveOld(m, info, s) ==
    IF Truthy(info[s].room) /\ Has(m, info[s].room)
    THEN LET left == SetDelete(m[info[s].room], s) IN
         IF Size(left) = 0 THEN MapDelete(m, info[s].room)
         ELSE MapSet(m, info[s].room, left)
    ELSE m

\* main.ts:144-147  add socket s to room r, creating the member set if absent
AddToRoom(m, r, s) ==
    LET m1 == IF ~Has(m, r) THEN MapSet(m, r, {}) ELSE m IN
    MapSet(m1, r, SetAdd(m1[r], s))

\* main.ts:132-147  the registry after socket s subscribed with payload p
JoinRooms(m, info, s, p) == AddToRoom(LeaveOld(m, info, s), FirstTopic(p), s)

\* main.ts:143  clientInfo.room = room
JoinInfo(info, s, p) == [info EXCEPT ![s].room = FirstTopic(p)]

\* a relay loop that runs over every socket the server accepted, whatever
\* its room and ready state
RelayToEveryone(m, info, rs, s, p) ==
    IF Truthy(info[s].room) /\ Has(m, info[s].room)
    THEN LET targets == InOrder((1..Len(rs)) \ {s}) IN
         [i \in 1..Len(targets) |-> [to |-> targets[i], data |-> p, ok |-> TRUE]]
    ELSE <<>>

\* a relay loop that runs over the members of every room, not only the sender's
RelayToAllRooms(m, info, rs, s, p) ==
    IF Truthy(info[s].room) /\ Has(m, info[s].room)
    THEN LET targets == InOrder({c \in UNION {m[k] : k \in DOMAIN m} :
                                    c # s /\ rs[c] = "OPEN"}) IN
         [i \in 1..Len(targets) |-> [to |-> targets[i], data |-> p, ok |-> TRUE]]
    ELSE <<>>

\* a relay loop that, for a sender without a room, sends to every open member
\* of every room
RelayOrphanToAll(m, info, rs, s, p) ==
    LET group == IF Truthy(info[s].room) /\ Has(m, info[s].room)
                 THEN m[info[s].room]
                 ELSE UNION {m[k] : k \in DOMAIN m}
        targets == InOrder({c \in group : c # s /\ rs[c] = "OPEN"}) IN
    [i \in 1..Len(targets) |-> [to |-> targets[i], data |-> p, ok |-> TRUE]]

\* a relay loop without the test client !== socket
RelayWithEcho(m, info, rs, s, p) ==
    IF Truthy(info[s].room) /\ Has(m, info[s].room)
    THEN LET targets == InOrder({c \in m[info[s].room] : rs[c] = "OPEN"}) IN
         [i \in 1..Len(targets) |-> [to |-> targets[i], data |-> p, ok |-> TRUE]]
    ELSE <<>>

\* a relay loop without the test client.readyState === WebSocket.OPEN
RelayToNonOpen(m, info, rs, s, p) ==
    IF Truthy(info[s].room) /\ Has(m, info[s].room)
    THEN LET targets == InOrder({c \in m[info[s].room] : c # s}) IN
         [i \in 1..Len(targets) |-> [to |-> targets[i], data |-> p, ok |-> TRUE]]
    ELSE <<>>

\* main.ts:158-167  the sends of the relay loop of socket s for payload p
Relay(m, info, rs, s, p) ==
    IF Truthy(info[s].room) /\ Has(m, info[s].room)
    THEN LET targets == InOrder({c \in m[info[s].room] : c # s /\ rs[c] = "OPEN"}) IN
         [i \in 1..Len(targets) |-> [to |-> targets[i], data |-> p, ok |-> TRUE]]
    ELSE <<>>

\* a catch block that relays nothing
FallbackRelayNone(m, info, rs, s, p) == <<>>

\* main.ts:180-186  the sends of the fallback loop in the catch block
FallbackRelay(m, info, rs, s, p) ==
    IF Truthy(info[s].room) /\ Has(m, info[s].room)
    THEN LET targets == InOrder({c \in m[info[s].room] : c # s /\ rs[c] = "OPEN"}) IN
         [i \in 1..Len(targets) |-> [to |-> targets[i], data |-> p, ok |-> TRUE]]
    ELSE <<>>

\* a close handler that leaves the emptied room in the registry
CloseRoomsKeepEmpty(m, info, s) ==
    IF Truthy(info[s].room) /\ Has(m, info[s].room)
    THEN MapSet(m, info[s].room, SetDelete(m[info[s].room], s))
    ELSE m

\* main.ts:191-200  the registry after the close handler of socket s
CloseRooms(m, info, s) ==
    IF Truthy(info[s].room) /\ Has(m, info[s].room)
    THEN LET left == SetDelete(m[info[s].room], s) IN
         IF Size(left) = 0 THEN MapDelete(m, info[s].room)
         ELSE MapSet(m, info[s].room, left)
    ELSE m

----------------------------------------------------------------------------
(* The request handler of Deno.serve (main.ts:45-223) *)

\* main.ts:49
IsHealthPath(path) == path = "/health" \/ path = "/"

\* main.ts:64
IsUpgrade(req) == req.upgrade = "websocket"

\* main.ts:91
Authenticated(req) == req.protocol = SIGNALING_PASSWORD

\* a request handler that checks the credential before anything else
ResponseStatusAuthFirst(req) ==
    IF ~Authenticated(req) THEN 401
    ELSE IF IsHealthPath(req.path) THEN 200
    ELSE IF ~IsUpgrade(req) THEN 426
    ELSE 101

\* a request handler without the upgrade check
ResponseStatusNoUpgradeCheck(req) ==
    IF IsHealthPath(req.path) THEN 200
    ELSE IF ~Authenticated(req) THEN 401
    ELSE 101

\* main.ts:45-110  the status of the response to request req
ResponseStatus(req) ==
    IF IsHealthPath(req.path) THEN 200
    ELSE IF ~IsUpgrade(req) THEN 426
    ELSE IF ~Authenticated(req) THEN 401
    ELSE 101

\* a handshake that echoes whatever protocol value the request presented
NegotiatedPresented(req, status) == req.protocol

\* main.ts:58, 65, 100, 108-110  the protocol the response negotiates: the
\* configured secret on an upgrade, none on a plain Response
Negotiated(req, status) == IF status = 101 THEN SIGNALING_PASSWORD ELSE Absent

\* a session that starts with a room pointer
NewSessionInRoom(tbl, s) == MapSet(tbl, s, [room |-> "A"])

\* main.ts:112-118  the session table after socket s was accepted
NewSession(tbl, s) == MapSet(tbl, s, [room |-> Null])

Init ==
    /\ rooms = <<>>
    /\ clients = <<>>
    /\ readyState = <<>>
    /\ last = Event("init", 0, NoPayload, NoRequest, NoResponse)
    /\ sent = <<>>
    /\ before = [rooms |-> rooms, clients |-> clients]
    /\ journal = <<>>

\* the elements of sequence q
Range(q) == {q[i] : i \in 1..Len(q)}

\* the sockets other than s that share a member set with s in registry m and
\* are open under ready states rs
OpenPeers(m, rs, s) ==
    {b \in (1..Len(rs)) \ {s} : rs[b] = "OPEN" /\ \E k \in DOMAIN m : s \in m[k] /\ b \in m[k]}

\* the journal once registry and ready states are m and rs: a peer stays
\* listed with an entry while it has shared a room with the sender and has
\* been open ever since the message was handled
Carry(j, m, rs) ==
    IF j = <<>> THEN j ELSE
    [i \in 1..Len(j) |-> [j[i] EXCEPT !.peers = j[i].peers \cap OpenPeers(m, rs, j[i].from)]]

\* the journal after socket s sent payload p and the handler made the sends q
Record(j, m, rs, s, p, q) ==
    IF Tracked(p)
    THEN Append(Carry(j, m, rs),
                [from |-> s, data |-> p.type, peers |-> OpenPeers(m, rs, s),
                 got |-> {x.to : x \in {y \in Range(q) : y.ok}}])
    ELSE Carry(j, m, rs)

\* the sends of list q in the order rank gives the sockets
Reorder(q, rank) ==
    [i \in 1..Len(q) |->
        CHOOSE e \in Range(q) : Cardinality({x \in Range(q) : rank[x.to] < rank[e.to]}) = i - 1]

\* main.ts:164, 183  the client.send calls of a loop over list q: all of them
\* when f = 0, else the first f, the last of them raising an error
Attempt(q, f) ==
    [i \in 1..(IF f = 0 THEN Len(q) ELSE f) |->
        [to |-> q[i].to, data |-> q[i].data, ok |-> i # f]]

\* main.ts:45-223  one request; an accepted upgrade creates the next socket,
\* of which the model accepts cap
Serve(req, cap) ==
    LET status == ResponseStatus(req)
        s == Len(readyState) + 1 IN
    /\ status = 101 => s <= cap
    /\ IF status = 101
       THEN /\ clients' = NewSession(clients, s)
            /\ readyState' = Append(readyState, "CONNECTING")
            /\ last' = Event("request", s, NoPayload, req,
                             [status |-> 101, echo |-> Negotiated(req, status), stats |-> NoStats])
       ELSE IF status = 200
       THEN /\ UNCHANGED <<readyState, clients>>
            /\ \E g \in LastWriters(rooms) :
                   last' = Event("request", 0, NoPayload, req,
                                 [status |-> 200, echo |-> Negotiated(req, status),
                                  stats |-> HealthStats(rooms, g)])
       ELSE /\ UNCHANGED <<readyState, clients>>
            /\ last' = Event("request", 0, NoPayload, req,
                             [status |-> status, echo |-> Negotiated(req, status), stats |-> NoStats])
    /\ sent' = <<>>
    /\ UNCHANGED rooms
    /\ before' = [rooms |-> rooms, clients |-> clients]
    /\ journal' = Carry(journal, rooms, readyState')

Request(req) == Serve(req, MaxConns)

\* main.ts:120-124  the open listener: it only logs
Open(s) ==
    /\ s \in 1..Len(readyState)
    /\ readyState[s] = "CONNECTING"
    /\ readyState' = [readyState EXCEPT ![s] = "OPEN"]
    /\ last' = Event("open", s, NoPayload, NoRequest, NoResponse)
    /\ sent' = <<>>
    /\ UNCHANGED <<rooms, clients>>
    /\ before' = [rooms |-> rooms, clients |-> clients]
    /\ journal' = Carry(journal, rooms, readyState')

\* main.ts:126-189  the message listener of socket s for payload p, every
\* client.send call returning normally
Message(s, p) ==
    /\ s \in 1..Len(readyState)
    /\ readyState[s] = "OPEN"
    /\ Tracked(p) => Len(journal) < MaxJournal
    /\ IF ParseThrows(p) \/ TypeThrows(p)
       THEN /\ sent' = FallbackRelay(rooms, clients, readyState, s, p)
            /\ UNCHANGED <<rooms, clients>>
       ELSE IF IsSubscribe(p)
       THEN /\ rooms' = JoinRooms(rooms, clients, s, p)
            /\ clients' = JoinInfo(clients, s, p)
            /\ sent' = Relay(rooms', clients', readyState, s, p)
       ELSE /\ sent' = Relay(rooms, clients, readyState, s, p)
            /\ UNCHANGED <<rooms, clients>>
    /\ last' = Event("message", s, p, NoRequest, NoResponse)
    /\ UNCHANGED readyState
    /\ before' = [rooms |-> rooms, clients |-> clients]
    /\ journal' = Record(journal, rooms', readyState, s, p, sent')

\* the transport starts closing socket s: readyState leaves OPEN before the
\* close event is dispatched (read at main.ts:163 and main.ts:182)
Closing(s) ==
    /\ s \in 1..Len(readyState)
    /\ readyState[s] = "OPEN"
    /\ readyState' = [readyState EXCEPT ![s] = "CLOSING"]
    /\ last' = Event("closing", s, NoPayload, NoRequest, NoResponse)
    /\ sent' = <<>>
    /\ UNCHANGED <<rooms, clients>>
    /\ before' = [rooms |-> rooms, clients |-> clients]
    /\ journal' = Carry(journal, rooms, readyState')

\* main.ts:191-213  the close listener of socket s (dispatched once per socket)
Close(s) ==
    /\ s \in 1..Len(readyState)
    /\ readyState[s] # "CLOSED"
    /\ rooms' = CloseRooms(rooms, clients, s)
    /\ clients' = MapDelete(clients, s)
    /\ readyState' = [readyState EXCEPT ![s] = "CLOSED"]
    /\ last' = Event("close", s, NoPayload, NoRequest, NoResponse)
    /\ sent' = <<>>
    /\ before' = [rooms |-> rooms, clients |-> clients]
    /\ journal' = Carry(journal, rooms', readyState')

\* an error listener that also releases the socket's membership
ErrorReleases(s) ==
    /\ s \in 1..Len(readyState)
    /\ readyState[s] # "CLOSED"
    /\ rooms' = CloseRooms(rooms, clients, s)
    /\ last' = Event("error", s, NoPayload, NoRequest, NoResponse)
    /\ sent' = <<>>
    /\ UNCHANGED <<clients, readyState>>
    /\ before' = [rooms |-> rooms, clients |-> clients]
    /\ journal' = Carry(journal, rooms', readyState)

\* main.ts:215-220  the error listener: it only logs
Error(s) ==
    /\ s \in 1..Len(readyState)
    /\ readyState[s] # "CLOSED"
    /\ last' = Event("error", s, NoPayload, NoRequest, NoResponse)
    /\ sent' = <<>>
    /\ UNCHANGED <<rooms, clients, readyState>>
    /\ before' = [rooms |-> rooms, clients |-> clients]
    /\ journal' = Carry(journal, rooms, readyState)

Next ==
    \/ \E req \in Requests : Request(req)
    \/ \E s \in Sockets : Open(s)
    \/ \E s \in Sockets, p \in Payloads : Message(s, p)
    \/ \E s \in Sockets : Closing(s)
    \/ \E s \in Sockets : Close(s)
    \/ \E s \in Sockets : Error(s)

Spec == Init /\ [][Next]_vars

\* the same program, the clients naming their rooms "A" and ""
NextEmptyName ==
    \/ \E req \in Requests : Request(req)
    \/ \E s \in Sockets : Open(s)
    \/ \E s \in Sockets, p \in EmptyNamePayloads : Message(s, p)
    \/ \E s \in Sockets : Closing(s)
    \/ \E s \in Sockets : Close(s)
    \/ \E s \in Sockets : Error(s)

SpecEmptyName == Init /\ [][NextEmptyName]_vars

\* the request handler, the model accepting MaxCrowd connections
RequestCrowd(req) == Serve(req, MaxCrowd)

\* main.ts:126-189  the message listener of socket s for payload p, any
\* client.send call raising an error or not: f1 is the call of the loop at
\* main.ts:162 that raises, f2 the call of the loop at main.ts:181 (0: none);
\* a raise in the first loop ends it and runs the catch block, a raise in
\* the catch block leaves the handler.  The loops run in the order rank.
MessageLossy(s, p) ==
    /\ s \in 1..Len(readyState)
    /\ readyState[s] = "OPEN"
    /\ Tracked(p) => Len(journal) < MaxJournal
    /\ LET thrown == ParseThrows(p) \/ TypeThrows(p)
           joins == ~thrown /\ IsSubscribe(p)
           m == IF joins THEN JoinRooms(rooms, clients, s, p) ELSE rooms
           info == IF joins THEN JoinInfo(clients, s, p) ELSE clients
           loops == {<<IF thrown THEN <<>>
                       ELSE Reorder(Relay(m, info, readyState, s, p), rank),
                       Reorder(FallbackRelay(m, info, readyState, s, p), rank)>> :
                     rank \in Permutations(1..Len(readyState))}
       IN \E both \in loops :
          LET loop == both[1]
              fallback == both[2]
          IN \E f1 \in 0..Len(loop) :
             \E f2 \in 0..(IF thrown \/ f1 # 0 THEN Len(fallback) ELSE 0) :
                /\ rooms' = m
                /\ clients' = info
                /\ sent' = Attempt(loop, f1)
                           \o (IF thrown \/ f1 # 0 THEN Attempt(fallback, f2) ELSE <<>>)
                /\ last' = [Event("message", s, p, NoRequest, NoResponse)
                               EXCEPT !.escaped = (f2 # 0)]
                /\ journal' = Record(journal, m, readyState, s, p, sent')
    /\ UNCHANGED readyState
    /\ before' = [rooms |-> rooms, clients |-> clients]

\* main.ts:191-213  the close listener run again for a socket whose close
\* event was handled before; clientInfo.room, which the listener keeps in
\* its closure and the model drops at the first close, is any room key r
CloseRepeated(s) ==
    /\ s \in 1..Len(readyState)
    /\ readyState[s] = "CLOSED"
    /\ \E r \in RoomKeys \cup {Null} :
           rooms' = CloseRooms(rooms, [c \in {s} |-> [room |-> r]], s)
    /\ clients' = MapDelete(clients, s)
    /\ last' = Event("closeRepeated", s, NoPayload, NoRequest, NoResponse)
    /\ sent' = <<>>
    /\ UNCHANGED readyState
    /\ before' = [rooms |-> rooms, clients |-> clients]
    /\ journal' = Carry(journal, rooms', readyState)

\* the same program with three peers: a send can raise and a close event can
\* come twice
NextCrowd ==
    \/ \E req \in {AcceptedRequest, HealthRequest} : RequestCrowd(req)
    \/ \E s \in Crowd : Open(s)
    \/ \E s \in Crowd, p \in CrowdPayloads : MessageLossy(s, p)
    \/ \E s \in Crowd : Closing(s)
    \/ \E s \in Crowd : Close(s)
    \/ \E s \in Crowd : CloseRepeated(s)
    \/ \E s \in Crowd : Error(s)

SpecCrowd == Init /\ [][NextCrowd]_vars

\* the same program with three peers, every send returning normally
NextTrio ==
    \/ RequestCrowd(AcceptedRequest)
    \/ \E s \in Crowd : Open(s)
    \/ \E s \in Crowd, p \in TrioPayloads : Message(s, p)
    \/ \E s \in Crowd : Closing(s)
    \/ \E s \in Crowd : Close(s)
    \/ \E s \in Crowd : Error(s)

SpecTrio == Init /\ [][NextTrio]_vars

\* the same program, the clients sending numbered messages
NextFifo ==
    \/ \E req \in {AcceptedRequest, HealthRequest} : Request(req)
    \/ \E s \in Sockets : Open(s)
    \/ \E s \in Sockets, p \in FifoPayloads : Message(s, p)
    \/ \E s \in Sockets : Closing(s)
    \/ \E s \in Sockets : Close(s)
    \/ \E s \in Sockets : Error(s)

SpecFifo == Init /\ [][NextFifo]_vars

\* the same program, a client naming its room "undefined"
NextKeyClash ==
    \/ \E req \in {AcceptedRequest, HealthRequest} : Request(req)
    \/ \E s \in Sockets : Open(s)
    \/ \E s \in Sockets, p \in ClashPayloads : Message(s, p)
    \/ \E s \in Sockets : Closing(s)
    \/ \E s \in Sockets : Close(s)
    \/ \E s \in Sockets : Error(s)

SpecKeyClash == Init /\ [][NextKeyClash]_vars

----------------------------------------------------------------------------
(* Vocabulary of the properties *)

\* the sockets accepted so far
Accepted == 1..Len(readyState)

\* the sockets whose session exists (accepted, close not yet handled)
Live == DOMAIN clients

IsOpen(c) == c \in Accepted /\ readyState[c] = "OPEN"

\* how many client.send calls to socket c returned normally in the handler
\* that ran last
Delivered(c) == Cardinality({i \in 1..Len(sent) : sent[i].to = c /\ sent[i].ok})

\* how many times the handler that ran last sent to socket c
TimesSent(c) == Cardinality({i \in 1..Len(sent) : sent[i].to = c})

\* the room keys of registry m whose member set holds socket c
RoomsOf(m, c) == {k \in DOMAIN m : c \in m[k]}

\* the handler that ran last handled a message / a message it took as a subscribe
MessageHandled == last.kind = "message"
SubscribeHandled == last.kind = "message" /\ IsSubscribe(last.payload)
RelayOnlyHandled == last.kind = "message" /\ ~IsSubscribe(last.payload)

----------------------------------------------------------------------------
(* Properties *)

\* C1 as stated: when a connection whose current room is X (the room it is in
\* when the message arrives) sends a message, subscribe or not, every send
\* goes to a connection whose current room is X.
RoomIsolationAtSend ==
    (MessageHandled /\ before.clients[last.sock].room \in TopicIds) =>
        \A i \in 1..Len(sent) :
            /\ sent[i].to \in Live
            /\ clients[sent[i].to].room = before.clients[last.sock].room

\* C1 amended  Room isolation: every send of a message handler goes to a
\* connection whose current room is the sender's current room when the relay
\* loop runs (for a subscribe, the room it has just joined); never to a
\* connection in another room, nor to one that has no room.
RoomIsolation ==
    MessageHandled =>
        \A i \in 1..Len(sent) :
            /\ sent[i].to \in Live
            /\ clients[sent[i].to].room # Null
            /\ clients[sent[i].to].room = clients[last.sock].room

\* C1 witness: a connection in room A sent a message that is no subscribe
\* while another open connection was in room B, and nothing was sent to it.
RoomIsolationWitness ==
    /\ RelayOnlyHandled
    /\ clients[last.sock].room = "A"
    /\ \E c \in Accepted :
        /\ IsOpen(c)
        /\ c \in Live
        /\ clients[c].room = "B"
        /\ c \in Members(rooms, "B")
        /\ TimesSent(c) = 0

\* C2  Same-room delivery: when a sends a message that is no subscribe, every
\* other open connection b that is a member of a room a is a member of is
\* sent that message exactly once, with the payload a sent.
SameRoomDelivery ==
    RelayOnlyHandled =>
        \A b \in Accepted \ {last.sock} :
            (IsOpen(b) /\ RoomsOf(rooms, last.sock) \cap RoomsOf(rooms, b) # {}) =>
                /\ TimesSent(b) = 1
                /\ \A i \in 1..Len(sent) : sent[i].to = b => sent[i].data = last.payload

\* C3  Every upgrade request that presents the configured credential is
\* accepted, whatever its path: the response is 101 and a session with no
\* room is created.
UpgradeAccepted ==
    (/\ last.kind = "request"
     /\ last.request.upgrade = "websocket"
     /\ last.request.protocol = SIGNALING_PASSWORD) =>
        /\ last.response.status = 101
        /\ last.sock \in Live
        /\ last.sock \notin DOMAIN before.clients
        /\ clients[last.sock].room = Null

\* C4  An upgrade request whose credential is absent or wrong is answered
\* 401, creates no session and leaves the registry and every session as
\* they were.
WrongCredentialRejected ==
    (/\ last.kind = "request"
     /\ last.request.upgrade = "websocket"
     /\ last.request.protocol # SIGNALING_PASSWORD) =>
        /\ last.response.status = 401
        /\ last.sock = 0
        /\ rooms = before.rooms
        /\ clients = before.clients

\* C5  Single membership: every connection is in at most one member set.
SingleMembership ==
    \A c \in Accepted : Cardinality(RoomsOf(rooms, c)) <= 1

\* C6  Bidirectional consistency: a live connection is in the member set of
\* room key k exactly when its room pointer is k; a session with no room
\* pointer is in no member set.
BidirectionalConsistency ==
    \A c \in Live :
        /\ \A k \in RoomKeys : c \in Members(rooms, k) <=> clients[c].room = k
        /\ clients[c].room = Null => RoomsOf(rooms, c) = {}

\* C7  No empty room: every key of the registry maps to a non-empty member
\* set, and a room key is absent exactly when no connection is in its
\* member set.
NoEmptyRoom ==
    /\ \A k \in DOMAIN rooms : rooms[k] # {}
    /\ \A k \in RoomKeys :
        k \notin DOMAIN rooms <=> Members(rooms, k) = {}

\* C7 witness: a handler removed the last member of room A and the room is
\* gone from the registry (once by a close, once by a switch to room B).
NoEmptyRoomWitness ==
    /\ last.kind \in {"close", "message"}
    /\ "A" \in DOMAIN before.rooms
    /\ before.rooms["A"] = {last.sock}
    /\ "A" \notin DOMAIN rooms

\* C8  Close releases membership: a connection whose close event has been
\* handled is in no member set.
CloseReleasesMembership ==
    \A c \in Accepted : readyState[c] = "CLOSED" => RoomsOf(rooms, c) = {}

\* C9  Full cleanup: once every connection ever accepted has been closed, the
\* stats report no room and no client.
FullCleanup ==
    (Len(readyState) > 0 /\ \A c \in Accepted : readyState[c] = "CLOSED") =>
        \A g \in LastWriters(rooms) :
            /\ HealthStats(rooms, g).totalRooms = 0
            /\ HealthStats(rooms, g).totalClients = 0
            /\ DOMAIN HealthStats(rooms, g).rooms = {}

\* C10  Room switch: when a member c of room A subscribes with a first topic
\* B other than A, then at the end of the handler c is out of A, A has one
\* member less (and is gone if c was its last), and c is a member of B; and a
\* message handler sends to an open c exactly when c is a member of the
\* sender's room, so c gets what is sent in B and nothing sent in A.
RoomSwitchAtomic ==
    /\ SubscribeHandled =>
        \A a \in DOMAIN before.rooms :
            (/\ last.sock \in before.rooms[a]
             /\ last.payload.topics.items # <<>>
             /\ FirstTopic(last.payload) # a) =>
                /\ last.sock \notin Members(rooms, a)
                /\ Cardinality(Members(rooms, a)) = Cardinality(before.rooms[a]) - 1
                /\ before.rooms[a] = {last.sock} => a \notin DOMAIN rooms
                /\ last.sock \in Members(rooms, FirstTopic(last.payload))
    /\ MessageHandled =>
        \A c \in Accepted \ {last.sock} :
            /\ c \notin Members(rooms, clients[last.sock].room) => TimesSent(c) = 0
            /\ (/\ IsOpen(c)
                /\ clients[last.sock].room \in TopicIds
                /\ c \in Members(rooms, clients[last.sock].room)) => TimesSent(c) = 1

\* the sockets the handler that ran last sent to
Recipients == {sent[i].to : i \in 1..Len(sent)}

\* the open sockets other than s in the member set of room key k of registry m
OpenOthers(m, k, s) == {c \in Members(m, k) : c # s /\ IsOpen(c)}

\* C11  A payload that is not JSON, sent by a connection that has a current
\* room, is sent once, unchanged, to exactly the other open members of that
\* room, and leaves the registry and every session as they were.
NonJsonRelayed ==
    (/\ MessageHandled
     /\ last.payload.syntax = "text"
     /\ before.clients[last.sock].room # Null) =>
        /\ Recipients = OpenOthers(before.rooms, before.clients[last.sock].room, last.sock)
        /\ \A c \in Recipients : TimesSent(c) = 1
        /\ \A i \in 1..Len(sent) : sent[i].data = last.payload
        /\ rooms = before.rooms
        /\ clients = before.clients

\* C12  Orphan messages are dropped: a message that is no subscribe, from a
\* connection with no current room, is sent to nobody and changes neither
\* the registry nor a session; and it is never sent later, since a handler
\* sends only the payload it was called with and no other event sends.
OrphanDropped ==
    /\ (RelayOnlyHandled /\ before.clients[last.sock].room = Null) =>
        /\ sent = <<>>
        /\ rooms = before.rooms
        /\ clients = before.clients
    /\ \A i \in 1..Len(sent) : MessageHandled /\ sent[i].data = last.payload

\* C12 witness: a connection without a room sent a message while another
\* open connection was member of a room, and nothing was sent.
OrphanDroppedWitness ==
    /\ RelayOnlyHandled
    /\ before.clients[last.sock].room = Null
    /\ \E c \in Accepted \ {last.sock} : IsOpen(c) /\ RoomsOf(rooms, c) # {}
    /\ sent = <<>>

\* C13  No echo: no handler sends a message back to the connection it came
\* from.
NoEcho ==
    MessageHandled => TimesSent(last.sock) = 0

\* C13 witness: a member of a room sent a message that was relayed to
\* another member.
NoEchoWitness ==
    /\ MessageHandled
    /\ last.sock \in Members(rooms, clients[last.sock].room)
    /\ sent # <<>>

\* C14  The health request is answered 200 whatever credential it carries,
\* changes neither the registry nor a session, and reports the number of
\* rooms, the number of members over all rooms and each room's number of
\* members as the registry holds them.
HealthReadOnly ==
    (/\ last.kind = "request"
     /\ last.request.path = "/health"
     /\ last.request.upgrade # "websocket") =>
        /\ last.response.status = 200
        /\ last.sock = 0
        /\ rooms = before.rooms
        /\ clients = before.clients
        /\ last.response.stats.totalRooms = Cardinality(DOMAIN rooms)
        /\ last.response.stats.totalClients =
               Cardinality({x \in (DOMAIN rooms) \X Sockets : x[2] \in rooms[x[1]]})
        /\ Cardinality(DOMAIN last.response.stats.rooms) = Cardinality(DOMAIN rooms)
        /\ \A k \in DOMAIN rooms :
               last.response.stats.rooms[ToKey(k)] = Cardinality(rooms[k])

\* C14 witness: a health request without a credential was answered while two
\* rooms had members.
HealthReadOnlyWitness ==
    /\ last.kind = "request"
    /\ last.request.path = "/health"
    /\ last.request.upgrade # "websocket"
    /\ last.request.protocol = Absent
    /\ Cardinality(DOMAIN rooms) = 2
    /\ last.response.stats.totalClients = 2

\* C15  A request that is no WebSocket upgrade and whose path is not a health
\* path ("/health" or "/") is answered 426 whatever credential it carries,
\* creates no session and changes no registry state.
UpgradeRequired ==
    (/\ last.kind = "request"
     /\ last.request.upgrade # "websocket"
     /\ last.request.path \notin {"/health", "/"}) =>
        /\ last.response.status = 426
        /\ last.sock = 0
        /\ rooms = before.rooms
        /\ clients = before.clients

\* C15 witness: such a request, carrying the right credential, was answered
\* 426 while a room had members.
UpgradeRequiredWitness ==
    /\ last.kind = "request"
    /\ last.request.upgrade # "websocket"
    /\ last.request.path = "/signal"
    /\ last.request.protocol = SIGNALING_PASSWORD
    /\ last.response.status = 426
    /\ DOMAIN rooms # {}

\* C16  A subscribe is relayed after the membership update: when c subscribes
\* with first topic R, c is a member of R, the payload is sent once to every
\* other open member of R, and nothing is sent to a member of a room c was
\* in before that is not a member of R.
SubscribeRelayedToNewRoom ==
    (SubscribeHandled /\ last.payload.topics.items # <<>>) =>
        LET R == last.payload.topics.items[1] IN
        /\ last.sock \in Members(rooms, R)
        /\ \A c \in OpenOthers(rooms, R, last.sock) :
            /\ TimesSent(c) = 1
            /\ \A i \in 1..Len(sent) : sent[i].to = c => sent[i].data = last.payload
        /\ \A k \in RoomsOf(before.rooms, last.sock) :
            \A c \in before.rooms[k] \ Members(rooms, R) : TimesSent(c) = 0

\* C17  First topic wins: after a subscribe with two or more topics the sender
\* is a member of the room of the first topic and of no other room; a later
\* topic creates no room and the sender is in no later topic's room.
FirstTopicWins ==
    (SubscribeHandled /\ Len(last.payload.topics.items) >= 2) =>
        LET items == last.payload.topics.items IN
        /\ RoomsOf(rooms, last.sock) = {items[1]}
        /\ \A j \in 2..Len(items) :
            items[j] # items[1] =>
                /\ last.sock \notin Members(rooms, items[j])
                /\ items[j] \in DOMAIN rooms => items[j] \in DOMAIN before.rooms

\* C18  A message of type subscribe whose topics array is empty leaves the
\* registry and the sender's room pointer as they were.
EmptyTopicsIgnored ==
    (/\ MessageHandled
     /\ last.payload.syntax = "object"
     /\ last.payload.type = "subscribe"
     /\ last.payload.topics.kind = "array"
     /\ last.payload.topics.items = <<>>) =>
        /\ rooms = before.rooms
        /\ clients = before.clients

\* a message whose action field is subscribe, with no type field and a
\* non-empty topics array, was handled
ActionSubscribeHandled ==
    /\ MessageHandled
    /\ last.payload.syntax = "object"
    /\ last.payload.type = Absent
    /\ last.payload.action = "subscribe"
    /\ last.payload.topics.kind = "array"
    /\ last.payload.topics.items # <<>>

\* C19 as stated: a message with action subscribe (no type) and a non-empty
\* topics array moves the sender into the room of the first topic.
ActionSubscribeJoins ==
    ActionSubscribeHandled =>
        /\ clients[last.sock].room = last.payload.topics.items[1]
        /\ last.sock \in Members(rooms, last.payload.topics.items[1])

\* C19 amended  The subscribe directive is recognized under the name type
\* only: a message with action subscribe and no type field moves nobody, the
\* registry and every room pointer stay as they were.
ActionSubscribeIgnored ==
    ActionSubscribeHandled =>
        /\ rooms = before.rooms
        /\ clients = before.clients

\* C19 witness: a connection in room B sent action subscribe for room A and
\* is still in room B only.
ActionSubscribeIgnoredWitness ==
    /\ ActionSubscribeHandled
    /\ last.payload.topics.items[1] = "A"
    /\ clients[last.sock].room = "B"
    /\ RoomsOf(rooms, last.sock) = {"B"}

\* the payloads that are no subscribe: not JSON, JSON without a type or with
\* another type, type subscribe with topics missing or not an array
RelayOnlyShape(p) ==
    \/ p.syntax \in {"text", "null"}
    \/ p.syntax = "object" /\ p.type # "subscribe"
    \/ p.syntax = "object" /\ p.type = "subscribe" /\ p.topics.kind \in {"absent", "string"}

\* C20  Relay-only messages do not touch membership: a message that is no
\* subscribe leaves the registry and every session's room pointer as they
\* were.
RelayOnlyKeepsMembership ==
    (MessageHandled /\ RelayOnlyShape(last.payload)) =>
        /\ rooms = before.rooms
        /\ clients = before.clients

\* C20 witness: a member of room B sent type subscribe with a topics field
\* that is a string, and is still in room B.
RelayOnlyKeepsMembershipWitness ==
    /\ MessageHandled
    /\ last.payload.type = "subscribe"
    /\ last.payload.topics.kind = "string"
    /\ clients[last.sock].room = "B"
    /\ RoomsOf(rooms, last.sock) = {"B"}

\* registry m, the sockets of set q taken out of every member set
Without(m, q) == [k \in DOMAIN m |-> m[k] \ q]

\* the members, other than the sender, of the room the handler that ran last
\* relayed in, whose transport is not open
NonOpenMembers ==
    {c \in Members(rooms, clients[last.sock].room) \ {last.sock} : ~IsOpen(c)}

\* the sends of the message listener of socket s for payload p in registry m
\* and session table info
SendsFor(m, info, s, p) ==
    IF ParseThrows(p) \/ TypeThrows(p)
    THEN FallbackRelay(m, info, readyState, s, p)
    ELSE Relay(m, info, readyState, s, p)

FailingSendIsolated ==
    (/\ MessageHandled
     /\ last.payload.syntax = "object"
     /\ \E i \in 1..Len(sent) : ~sent[i].ok) =>
        /\ ~last.escaped
        /\ \A c \in OpenOthers(rooms, clients[last.sock].room, last.sock) :
               (\A i \in 1..Len(sent) : sent[i].to = c => sent[i].ok) => Delivered(c) >= 1

\* C23  At most once: whatever the outcome of the client.send calls, the
\* handler of one message sends it to each connection at most once.
AtMostOnce ==
    MessageHandled => \A c \in Accepted : Delivered(c) <= 1

\* the numbered messages socket b received, in the order it received them
ReceivedBy(b) ==
    LET Got(e) == b \in e.got IN SelectSeq(journal, Got)

\* C24  Single-sender FIFO: when a sent two numbered messages, m1 then m2,
\* and b has been an open member of a's room ever since m1 was handled, the
\* sequence b received holds m1 before m2.
SingleSenderFifo ==
    \A i \in 1..Len(journal), j \in 1..Len(journal) :
        (i < j /\ journal[i].from = journal[j].from) =>
            \A b \in journal[i].peers \cap journal[j].peers :
                \E k \in 1..Len(ReceivedBy(b)), l \in 1..Len(ReceivedBy(b)) :
                    /\ k < l
                    /\ ReceivedBy(b)[k].data = journal[i].data
                    /\ ReceivedBy(b)[l].data = journal[j].data

\* C25  A transport error event changes nothing: the step that handles it
\* leaves the registry, the session table with every room pointer and the
\* ready states as they were, so the connection is relayed to as before.
ErrorChangesNothing ==
    [][last'.kind = "error" =>
          /\ rooms' = rooms
          /\ clients' = clients
          /\ readyState' = readyState
          /\ sent' = <<>>]_vars

\* C25 witness: an error event was handled for an open member of a room that
\* has another member.
ErrorChangesNothingWitness ==
    /\ last.kind = "error"
    /\ IsOpen(last.sock)
    /\ \E k \in RoomsOf(rooms, last.sock) : Size(rooms[k]) = 2 /\ clients[last.sock].room = k

\* C26  Cleanup happens exactly once: the close event of a member of room R
\* takes one member from R and discards the session; an error event and a
\* close event that comes again change neither the registry nor the sessions.
CleanupExactlyOnce ==
    /\ last.kind = "close" =>
        /\ \A R \in RoomsOf(before.rooms, last.sock) :
               Size(Members(rooms, R)) = Size(before.rooms[R]) - 1
        /\ last.sock \notin DOMAIN clients
    /\ last.kind \in {"error", "closeRepeated"} =>
        /\ rooms = before.rooms
        /\ clients = before.clients

\* C27  Stats never show a half-updated registry: in every health snapshot
\* no room has count zero, the number of per-room entries is totalRooms and
\* the per-room counts add up to totalClients.
StatsConsistent ==
    (last.kind = "request" /\ last.response.status = 200) =>
        LET st == last.response.stats IN
        /\ \A key \in DOMAIN st.rooms : st.rooms[key] > 0
        /\ Cardinality(DOMAIN st.rooms) = st.totalRooms
        /\ Sum(st.rooms, DOMAIN st.rooms) = st.totalClients

\* C28  totalClients counts live members only: in every state the stats
\* report as totalClients the number of connections not yet closed that have
\* a current room, and for each room the number of connections not yet
\* closed whose room pointer names it.
StatsCountLive ==
    \A g \in LastWriters(rooms) :
        /\ HealthStats(rooms, g).totalClients =
               Cardinality({c \in Live : clients[c].room # Null})
        /\ \A k \in DOMAIN rooms :
               HealthStats(rooms, g).rooms[ToKey(k)] =
                   Cardinality({c \in Live : clients[c].room = k})

\* C29  Payload-agnostic relay: a message that is no subscribe leaves the
\* registry and the sessions as they were and is sent to the connections any
\* other such payload from the same connection in the same state would be
\* sent to; the sends carry the payload as it came.
PayloadAgnostic ==
    (MessageHandled /\ RelayOnlyShape(last.payload)) =>
        /\ rooms = before.rooms
        /\ clients = before.clients
        /\ \A q \in Payloads :
               RelayOnlyShape(q) =>
                   Recipients =
                       {x.to : x \in Range(SendsFor(before.rooms, before.clients, last.sock, q))}
        /\ \A i \in 1..Len(sent) : sent[i].data = last.payload

\* C29 witness: a payload that is not JSON was relayed to a member of the
\* sender's room.
PayloadAgnosticWitness ==
    /\ MessageHandled
    /\ last.payload.syntax = "text"
    /\ Recipients # {}

\* socket c has no current room, is in no member set and adds nothing to the
\* totals of the stats
Outside(c) ==
    /\ c \in DOMAIN clients => clients[c].room = Null
    /\ RoomsOf(rooms, c) = {}
    /\ GetTotalClients(rooms) = GetTotalClients(Without(rooms, {c}))

\* C30  A connection that was accepted and has never sent a subscribe has no
\* current room, is in no member set, is not counted in the stats and is
\* sent no message: a connection is so when it is accepted, and stays so in
\* every step other than its own subscribe.
NeverSubscribedOutside ==
    [][\A c \in 1..Len(readyState') :
          (\/ c \notin 1..Len(readyState)
           \/ /\ Outside(c)
              /\ ~(last'.kind = "message" /\ last'.sock = c /\ ~RelayOnlyShape(last'.payload)))
          => (Outside(c)' /\ c \notin Recipients')]_vars

\* C30 witness: a message was relayed between two members of a room while a
\* third connection, open and without a room, was sent nothing.
NeverSubscribedOutsideWitness ==
    /\ MessageHandled
    /\ Recipients # {}
    /\ \E c \in Accepted \ Recipients :
           IsOpen(c) /\ c # last.sock /\ clients[c].room = Null /\ RoomsOf(rooms, c) = {}

\* C31  A subscribe or a close handled for connection c leaves every other
\* connection d as it was: d has a session after the handler exactly when it
\* had one before, with the same room pointer, and the set of rooms whose
\* member set contains d is the same before and after.
OthersUndisturbed ==
    (SubscribeHandled \/ last.kind = "close") =>
        \A d \in Accepted \ {last.sock} :
            /\ d \in DOMAIN clients <=> d \in DOMAIN before.clients
            /\ d \in DOMAIN clients => clients[d].room = before.clients[d].room
            /\ RoomsOf(rooms, d) = RoomsOf(before.rooms, d)

\* C31 witness: c and d shared room A and c's subscribe moved c to room B,
\* d staying in A with its room pointer.
OthersUndisturbedWitness ==
    /\ SubscribeHandled
    /\ \E d \in Accepted \ {last.sock} :
        /\ {last.sock, d} \subseteq Members(before.rooms, "A")
        /\ last.sock \in Members(rooms, "B")
        /\ d \in Members(rooms, "A")
        /\ clients[d].room = "A"

\* C32  The handshake response of an accepted upgrade negotiates exactly the
\* credential the request presented, which is the configured secret; a
\* response that is no accepted upgrade (401, 426, or the stats answer)
\* negotiates no protocol.
CredentialEchoed ==
    last.kind = "request" =>
        /\ last.response.status = 101 =>
              /\ last.response.echo = last.request.protocol
              /\ last.response.echo = SIGNALING_PASSWORD
        /\ last.response.status # 101 => last.response.echo = Absent

\* C32 witness: an upgrade request with the configured secret was accepted
\* and the response carries that secret.
CredentialEchoedWitness ==
    /\ last.kind = "request"
    /\ last.request.protocol = SIGNALING_PASSWORD
    /\ last.response.status = 101
    /\ last.response.echo = SIGNALING_PASSWORD
    /\ last.sock \in Live

\* C33  Re-subscribing is idempotent: when c, a member of room R, subscribes
\* with first topic R, the registry (its room ids and their member sets) and
\* every room pointer are after the handler what they were before it.
ResubscribeIdempotent ==
    (/\ SubscribeHandled
     /\ last.sock \in Members(before.rooms, FirstTopic(last.payload))) =>
        /\ rooms = before.rooms
        /\ clients = before.clients

\* C34  No delivery after close: a connection whose close event has been
\* handled is sent nothing by any handler that runs afterwards, whoever the
\* sender is, whatever its room and whatever the closed connection sent or
\* joined before.
NoDeliveryAfterClose ==
    \A c \in Accepted : readyState[c] = "CLOSED" => c \notin Recipients

\* C34 witness: after c's close event was handled, a message was relayed to
\* an open peer of the sender while c, still listed in a member set the close
\* handler did not clear, was sent nothing.
NoDeliveryAfterCloseWitness ==
    /\ MessageHandled
    /\ Recipients # {}
    /\ \E c \in Accepted \ (Recipients \cup {last.sock}) :
        /\ readyState[c] = "CLOSED"
        /\ c \notin Live
        /\ RoomsOf(rooms, c) # {}

====
